---- MODULE Spec2Model ----
(***************************************************************************)
(* Model of the achievement logger's client, src/agent/ResumeLogger.jsx:   *)
(* the stage state machine of the ResumeLogger component, its two network  *)
(* requests (structuring by the LLM, persistence by POST /log-entry) and   *)
(* the pure structuring function inferStructureFromInput; and of the       *)
(* Entry Persistence Service behind POST /log-entry, whose code is not in  *)
(* src/ and which is modelled on section 4.2 of spec.md.                   *)
(*                                                                         *)
(* A JavaScript string is a sequence of one-character strings, so that     *)
(* split, trim, substring and toLowerCase are computed, not assumed.       *)
(* A JavaScript value is a record [t |-> type tag, v |-> content].         *)
(* A JavaScript object is a function from property names to values.        *)
(***************************************************************************)
EXTENDS Integers, Sequences, FiniteSets, TLC

VARIABLES
    stage,           \* useState('reflection')          line 19
    userInput,       \* useState('')                    line 20
    structuredData,  \* useState({})                    line 21
    isSubmitting,    \* useState(false)                 line 22
    editField,       \* useState(null)                  line 23
    apiResponse,     \* useState('')                    line 24
    shouldProcess,   \* useState(false)                 line 25
    structReqs,      \* outstanding calls of inferStructureFromInput
    persistReqs,     \* outstanding POSTs to /log-entry
    clock,           \* what new Date().toISOString() returns now
    lastEvent,       \* the outcome the handler that ran last saw, if any
    edits,           \* how many times handleFieldEdit has run
    probe,           \* one direct call of a function under test
    repo             \* the service's working copy, history, remote, last result

vars == <<stage, userInput, structuredData, isSubmitting, editField,
          apiResponse, shouldProcess, structReqs, persistReqs, clock,
          lastEvent, edits, probe, repo>>

uiVars == <<stage, userInput, structuredData, isSubmitting, editField,
            apiResponse, shouldProcess, structReqs, persistReqs, lastEvent,
            edits>>

(***************************************************************************)
(* Bounds                                                                  *)
(***************************************************************************)
\* longest string enumerated exhaustively as a direct input of the
\* structuring function
MaxLen == 3
\* most structuring requests the model lets be outstanding at once
MaxStructReqs == 2
\* most field edits the model follows the user through
MaxEdits == 1
\* most commits the model lets the service's history grow to
MaxCommits == 3

(***************************************************************************)
(* String literals of the source                                           *)
(***************************************************************************)
RecentAchievement ==
    <<"R", "e", "c", "e", "n", "t", " ", "A", "c", "h", "i", "e", "v", "e", "m", "e", "n", "t">>
AchievementTag ==
    <<"A", "c", "h", "i", "e", "v", "e", "m", "e", "n", "t">>
InProgress ==
    <<"I", "n", " ", "P", "r", "o", "g", "r", "e", "s", "s">>
Internal ==
    <<"I", "n", "t", "e", "r", "n", "a", "l">>
AccomplishedPrefix ==
    <<"A", "c", "c", "o", "m", "p", "l", "i", "s", "h", "e", "d", " ">>
RecentWork ==
    <<"r", "e", "c", "e", "n", "t", " ", "w", "o", "r", "k">>
ErrorPrefix ==
    <<"E", "r", "r", "o", "r", ":", " ">>
EntrySubmitted ==
    <<"E", "n", "t", "r", "y", " ", "s", "u", "b", "m", "i", "t", "t", "e", "d", " ",
      "s", "u", "c", "c", "e", "s", "s", "f", "u", "l", "l", "y", "!">>
\* title: input.split('.')[0]?.trim().substring(0, 80)
TitleMax == 80

(***************************************************************************)
(* JavaScript string operations                                            *)
(***************************************************************************)
Min(a, b) == IF a < b THEN a ELSE b

\* String.prototype.trim strips white space at both ends
IsSpace(c) == c \in {" ", "\n", "\t"}

trim_none(s) == s

trim(s) ==
    LET kept == {i \in 1..Len(s) : ~IsSpace(s[i])}
    IN  IF kept = {} THEN <<>>
        ELSE SubSeq(s, CHOOSE i \in kept : \A j \in kept : i <= j,
                       CHOOSE i \in kept : \A j \in kept : j <= i)

\* String.prototype.split(sep) for a one-character separator: the pieces
\* between the separators, always at least one piece. cut(k) is the
\* position of the k-th separator, with 0 and Len(s) + 1 at the two ends.
split(s, sep) ==
    LET at == {i \in 1..Len(s) : s[i] = sep}
        cut(k) == IF k = 0 THEN 0
                  ELSE IF k > Cardinality(at) THEN Len(s) + 1
                  ELSE CHOOSE i \in at : Cardinality({j \in at : j < i}) = k - 1
    IN  [k \in 1..(Cardinality(at) + 1) |-> SubSeq(s, cut(k - 1) + 1, cut(k) - 1)]

\* String.prototype.substring(0, n)
substring(s, n) == SubSeq(s, 1, Min(n, Len(s)))

\* String.prototype.toLowerCase on the letters the model uses
lowerChar(c) ==
    CASE c = "A" -> "a"
      [] c = "B" -> "b"
      [] c = "S" -> "s"
      [] c = "V" -> "v"
      [] OTHER -> c

toLowerCase(s) == [i \in 1..Len(s) |-> lowerChar(s[i])]

(***************************************************************************)
(* JavaScript values                                                       *)
(***************************************************************************)
Str(s) == [t |-> "str", v |-> s]
Arr(xs) == [t |-> "arr", v |-> xs]
Obj(f) == [t |-> "obj", v |-> f]
Num(n) == [t |-> "num", v |-> <<n>>]
JNull == [t |-> "null", v |-> <<>>]
EmptyObject == <<>>

\* property names of the indices of a string or an array
IndexKey(i) == <<"0", "1", "2", "3", "4", "5", "6", "7", "8", "9">>[i + 1]

\* the own enumerable properties an object spread {...x} copies
Spread(x) ==
    CASE x.t = "obj" -> x.v
      [] x.t = "str" ->
            [k \in {IndexKey(i - 1) : i \in 1..Len(x.v)} |->
                Str(<<x.v[CHOOSE i \in 1..Len(x.v) : IndexKey(i - 1) = k]>>)]
      [] x.t = "arr" ->
            [k \in {IndexKey(i - 1) : i \in 1..Len(x.v)} |->
                x.v[CHOOSE i \in 1..Len(x.v) : IndexKey(i - 1) = k]]
      [] OTHER -> EmptyObject

\* { ...a, ...b }: a property of b replaces the property of a with its name
Merge(a, b) == [k \in (DOMAIN a) \cup (DOMAIN b) |-> IF k \in DOMAIN b THEN b[k] ELSE a[k]]

(***************************************************************************)
(* The clock                                                               *)
(***************************************************************************)
Timestamps ==
    << <<"2", "0", "2", "5", "-", "0", "8", "-", "1", "6", "T",
         "2", "3", ":", "5", "9", ":", "5", "9", ".", "0", "0", "0", "Z">>,
       <<"2", "0", "2", "5", "-", "0", "8", "-", "1", "7", "T",
         "0", "0", ":", "0", "0", ":", "0", "1", ".", "0", "0", "0", "Z">> >>

toISOString(c) == Timestamps[c]

\* new Date().toISOString().split('T')[0]
today(c) == split(toISOString(c), "T")[1]

(***************************************************************************)
(* inferStructureFromInput (lines 38-83)                                   *)
(*                                                                         *)
(* What the LLM call does is an input: llm.kind names the first place of   *)
(* the try block that fails, or "contentJson" when none does, and then     *)
(* llm.json is the value JSON.parse returns.                               *)
(***************************************************************************)
LLMFailureKinds ==
    { "fetchThrows",      \* line 40: await fetch(...) rejects
      "bodyNotJson",      \* line 61: await response.json() rejects
      "bodyNull",         \* line 62: data is null, data.choices throws
      "choicesMissing",   \* line 62: data.choices is undefined, [0] throws
      "choicesEmpty",     \* line 62: data.choices[0] is undefined, .message throws
      "messageMissing",   \* line 62: .message is undefined, .content throws
      "contentMissing",   \* line 62: JSON.parse(undefined) throws
      "contentNotJson" }  \* line 62: JSON.parse throws SyntaxError

Thrown(e) == [threw |-> TRUE, error |-> e, value |-> EmptyObject]
Returned(x) == [threw |-> FALSE, error |-> "none", value |-> x]

\* lines 40-67, the try block
inferTry(input, llm, c) ==
    CASE llm.kind \in {"fetchThrows", "bodyNull", "choicesMissing",
                       "choicesEmpty", "messageMissing"} -> Thrown("TypeError")
      [] llm.kind \in {"bodyNotJson", "contentMissing", "contentNotJson"} ->
            Thrown("SyntaxError")
      [] OTHER ->
            \* { date: new Date().toISOString().split('T')[0], ...structuredJson }
            Returned(Merge("date" :> Str(today(c)), Spread(llm.json)))

\* a || b on strings: the empty string is falsy
OrElse(a, b) == IF a # <<>> THEN a ELSE b

\* lines 70-81, the record the catch block returns. split always returns at
\* least one piece, so input.split('.')[0] is a string and ?. never
\* short-circuits.
inferCatch_noTruncate(input, c) ==
    [ date |-> Str(today(c)),
      title |-> Str(OrElse(trim(split(input, ".")[1]), RecentAchievement)),
      description |-> Str(trim(input)),
      tags |-> Arr(<<Str(AchievementTag)>>),
      impact_level |-> Str(InProgress),
      visibility |-> Arr(<<Str(Internal)>>),
      resume_bullet |-> Str(AccomplishedPrefix
                            \o OrElse(toLowerCase(split(input, ".")[1]), RecentWork)
                            \o <<".">>) ]

inferCatch(input, c) ==
    [ date |-> Str(today(c)),
      title |-> Str(OrElse(substring(trim(split(input, ".")[1]), TitleMax),
                           RecentAchievement)),
      description |-> Str(trim(input)),
      tags |-> Arr(<<Str(AchievementTag)>>),
      impact_level |-> Str(InProgress),
      visibility |-> Arr(<<Str(Internal)>>),
      resume_bullet |-> Str(AccomplishedPrefix
                            \o OrElse(toLowerCase(split(input, ".")[1]), RecentWork)
                            \o <<".">>) ]

Resolved(x) == [settled |-> "resolved", value |-> x]
Rejected == [settled |-> "rejected", value |-> EmptyObject]
Pending == [settled |-> "pending", value |-> EmptyObject]

inferStructureFromInput_noCatch(input, llm, c) ==
    LET r == inferTry(input, llm, c)
    IN  IF r.threw THEN Rejected ELSE Resolved(r.value)

\* lines 38-83: the promise the async function returns
inferStructureFromInput(input, llm, c) ==
    LET r == inferTry(input, llm, c)
    IN  IF r.threw THEN Resolved(inferCatch(input, c)) ELSE Resolved(r.value)

(***************************************************************************)
(* Inputs the model draws from                                             *)
(***************************************************************************)
Alphabet == {"A", "b", " ", "."}

StringsUpTo(n) == UNION {[1..k -> Alphabet] : k \in 0..n}

Repeat(c, n) == [i \in 1..n |-> c]

\* strings around the title limit, with and without white space to trim
LongInputs ==
    { pre \o Repeat("b", k) \o suf :
        pre \in {<<>>, <<" ">>},
        k \in {TitleMax - 1, TitleMax, TitleMax + 1},
        suf \in {<<>>, <<"A">>, <<".", "b">>, <<" ", "b">>} }

InferInputs == StringsUpTo(MaxLen) \cup LongInputs

ShippedV2 == <<"S", "h", "i", "p", "p", "e", "d", " ", "V", "2">>
DevOps == <<"D", "e", "v", "O", "p", "s">>
Confirmed == <<"C", "o", "n", "f", "i", "r", "m", "e", "d">>
OldDate == <<"1", "9", "9", "9", "-", "0", "1", "-", "0", "1">>

\* a response that follows the system prompt of line 51
GoodJson ==
    [ title |-> Str(ShippedV2),
      description |-> Str(<<"b">>),
      tags |-> Arr(<<Str(DevOps)>>),
      impact_level |-> Str(Confirmed),
      visibility |-> Arr(<<Str(Internal)>>),
      resume_bullet |-> Str(ShippedV2) ]

\* values JSON.parse can return for the message content
JsonValues ==
    { Obj(GoodJson),
      Obj(EmptyObject),
      Obj(Merge(GoodJson, "date" :> Str(OldDate))),
      Obj([GoodJson EXCEPT !.title = Str(<<>>)]),
      Obj([GoodJson EXCEPT !.tags = Arr(<<>>)]),
      Obj([k \in (DOMAIN GoodJson) \ {"resume_bullet"} |-> GoodJson[k]]),
      JNull,
      Num(7),
      Str(<<"A", "b">>),
      Arr(<<Str(<<"b">>)>>) }

LLMFailures == {[kind |-> k, json |-> JNull] : k \in LLMFailureKinds}

LLMOutcomes == LLMFailures \cup {[kind |-> "contentJson", json |-> j] : j \in JsonValues}

(***************************************************************************)
(* A direct call of the structuring function                               *)
(***************************************************************************)
ProbeIdle ==
    [ pc |-> "idle", input |-> <<>>, llm |-> [kind |-> "fetchThrows", json |-> JNull],
      clock |-> 1, result |-> Pending ]

InferCall(input, llm) ==
    /\ probe.pc = "idle"
    /\ probe' = [ pc |-> "done", input |-> input, llm |-> llm, clock |-> clock,
                  result |-> inferStructureFromInput(input, llm, clock) ]
    /\ UNCHANGED <<uiVars, clock, repo>>

\* time passes
Tick ==
    /\ clock < Len(Timestamps)
    /\ clock' = clock + 1
    /\ UNCHANGED <<uiVars, probe, repo>>

(***************************************************************************)
(* The Entry Persistence Service (spec.md 4.2)                             *)
(*                                                                         *)
(* repo.files is the working copy under logs/, a set of [path, content]    *)
(* with one entry per path; repo.commits is the local history, one         *)
(* [path, content] per commit; repo.remote is the number of commits the    *)
(* remote has; repo.out is what the last call of addLogEntry returned.     *)
(***************************************************************************)
LowerAlnum ==
    { "a", "b", "c", "d", "e", "f", "g", "h", "i", "j", "k", "l", "m",
      "n", "o", "p", "q", "r", "s", "t", "u", "v", "w", "x", "y", "z",
      "0", "1", "2", "3", "4", "5", "6", "7", "8", "9" }

\* step 2: lowercase; every other character becomes the separator
slugChar(c) == IF lowerChar(c) \in LowerAlnum THEN lowerChar(c) ELSE "-"

\* step 2: runs of separators collapsed to one, none at the two ends
slugify(title) ==
    LET m == [i \in 1..Len(title) |-> slugChar(title[i])]
        kept == {i \in 1..Len(m) :
                    \/ m[i] # "-"
                    \/ /\ i > 1 /\ m[i - 1] # "-"
                       /\ \E j \in (i + 1)..Len(m) : m[j] # "-"}
        nth(k) == CHOOSE i \in kept : Cardinality({j \in kept : j < i}) = k - 1
    IN  [k \in 1..Cardinality(kept) |-> m[nth(k)]]

IsDigit(c) == c \in {"0", "1", "2", "3", "4", "5", "6", "7", "8", "9"}

DigitValue(c) ==
    CASE c = "0" -> 0 [] c = "1" -> 1 [] c = "2" -> 2 [] c = "3" -> 3
      [] c = "4" -> 4 [] c = "5" -> 5 [] c = "6" -> 6 [] c = "7" -> 7
      [] c = "8" -> 8 [] c = "9" -> 9

DaysIn(year, month) ==
    IF month = 2
    THEN IF year % 4 = 0 /\ (year % 100 # 0 \/ year % 400 = 0) THEN 29 ELSE 28
    ELSE IF month \in {4, 6, 9, 11} THEN 30 ELSE 31

\* step 1: the date parses as an ISO calendar date, YYYY-MM-DD
isoDateParses(d) ==
    /\ Len(d) = 10
    /\ d[5] = "-" /\ d[8] = "-"
    /\ \A i \in {1, 2, 3, 4, 6, 7, 9, 10} : IsDigit(d[i])
    /\ LET year == 1000 * DigitValue(d[1]) + 100 * DigitValue(d[2])
                     + 10 * DigitValue(d[3]) + DigitValue(d[4])
           month == 10 * DigitValue(d[6]) + DigitValue(d[7])
           day == 10 * DigitValue(d[9]) + DigitValue(d[10])
       IN  /\ year >= 1
           /\ month \in 1..12
           /\ day \in 1..DaysIn(year, month)

LogsDir == <<"l", "o", "g", "s", "/">>
JsonExt == <<".", "j", "s", "o", "n">>

\* step 3: logs/<year-of-date>/<date>_<slug>.json
storagePath(date, slug) ==
    LogsDir \o SubSeq(date, 1, 4) \o <<"/">> \o date \o <<"_">> \o slug \o JsonExt

recordPath(record) == storagePath(record["date"].v, slugify(record["title"].v))

\* the content of path in the last commit that touched it is content
HeadHas(commits, path, content) ==
    \E i \in 1..Len(commits) :
        /\ commits[i] = [path |-> path, content |-> content]
        /\ \A j \in (i + 1)..Len(commits) : commits[j].path # path

\* step 7: success flag, message, error category
Result(record, env, success, message, category) ==
    [ op |-> "addLogEntry", record |-> record, env |-> env,
      success |-> success, message |-> message, category |-> category ]

NoResult == [op |-> "none"]

RepoEmpty == [files |-> {}, commits |-> <<>>, remote |-> 0, out |-> NoResult]

\* step 4: the file at the path is written, whatever was there before
writeFile(r, path, record) ==
    [r EXCEPT !.files = {f \in r.files : f.path # path}
                            \cup {[path |-> path, content |-> record]}]

\* step 5: git add and git commit of the file
commitFile(r, path, record) ==
    [r EXCEPT !.commits = Append(r.commits, [path |-> path, content |-> record])]

pushCommits_revert(r, record, env) ==
    IF ~env.token
    THEN [r EXCEPT !.commits = SubSeq(r.commits, 1, Len(r.commits) - 1),
                   !.out = Result(record, env, FALSE, "Git push failed", "auth")]
    ELSE IF env.fault = "pushRejected"
    THEN [r EXCEPT !.out = Result(record, env, FALSE, "Git push failed", "git")]
    ELSE [r EXCEPT !.remote = Len(r.commits),
                   !.out = Result(record, env, TRUE, "Success", "none")]

\* step 6: git push with the token of the environment; without a token the
\* push fails and the file and the local commit stay
pushCommits(r, record, env) ==
    IF ~env.token
    THEN [r EXCEPT !.out = Result(record, env, FALSE, "Git push failed", "auth")]
    ELSE IF env.fault = "pushRejected"
    THEN [r EXCEPT !.out = Result(record, env, FALSE, "Git push failed", "git")]
    ELSE [r EXCEPT !.remote = Len(r.commits),
                   !.out = Result(record, env, TRUE, "Success", "none")]

addLogEntryRun_nothingIsError(r, record, env) ==
    LET path == recordPath(record)
        written == writeFile(r, path, record)
    IN  IF ~isoDateParses(record["date"].v)
        THEN [r EXCEPT !.out = Result(record, env, FALSE, "Invalid date", "validation")]
        ELSE IF env.fault = "fsDenied"
        THEN [r EXCEPT !.out = Result(record, env, FALSE,
                                      "Failed to write log entry", "filesystem")]
        ELSE IF env.fault = "commitFails" \/ HeadHas(r.commits, path, record)
        THEN [written EXCEPT !.out = Result(record, env, FALSE,
                                            "Git commit failed", "git")]
        ELSE pushCommits(commitFile(written, path, record), record, env)

addLogEntryRun_writeFirst(r, record, env) ==
    LET path == recordPath(record)
        written == writeFile(r, path, record)
    IN  IF env.fault = "fsDenied"
        THEN [r EXCEPT !.out = Result(record, env, FALSE,
                                      "Failed to write log entry", "filesystem")]
        ELSE IF ~isoDateParses(record["date"].v)
        THEN [written EXCEPT !.out = Result(record, env, FALSE,
                                            "Invalid date", "validation")]
        ELSE IF env.fault = "commitFails"
        THEN [written EXCEPT !.out = Result(record, env, FALSE,
                                            "Git commit failed", "git")]
        ELSE IF HeadHas(r.commits, path, record)
        THEN [written EXCEPT !.out = Result(record, env, TRUE,
                                            "No changes to commit", "none")]
        ELSE pushCommits(commitFile(written, path, record), record, env)

\* steps 1-7 on the repository r
addLogEntryRun(r, record, env) ==
    LET path == recordPath(record)
        written == writeFile(r, path, record)
    IN  IF ~isoDateParses(record["date"].v)
        THEN [r EXCEPT !.out = Result(record, env, FALSE, "Invalid date", "validation")]
        ELSE IF env.fault = "fsDenied"
        THEN [r EXCEPT !.out = Result(record, env, FALSE,
                                      "Failed to write log entry", "filesystem")]
        ELSE IF env.fault = "commitFails"
        THEN [written EXCEPT !.out = Result(record, env, FALSE,
                                            "Git commit failed", "git")]
        ELSE IF HeadHas(r.commits, path, record)
        THEN [written EXCEPT !.out = Result(record, env, TRUE,
                                            "No changes to commit", "none")]
        ELSE pushCommits(commitFile(written, path, record), record, env)

\* one request served from start to end; requests are served one at a time
addLogEntry(record, env) ==
    /\ Len(repo.commits) < MaxCommits
    /\ repo' = addLogEntryRun(repo, record, env)
    /\ UNCHANGED <<uiVars, clock, probe>>

LeapDay == <<"2", "0", "2", "4", "-", "0", "2", "-", "2", "9">>
August16 == <<"2", "0", "2", "5", "-", "0", "8", "-", "1", "6">>
NoSuchDay == <<"2", "0", "2", "5", "-", "0", "2", "-", "3", "0">>
SlashDate == <<"1", "6", "/", "0", "8", "/", "2", "0", "2", "5">>

\* records the endpoint receives: two titles with the same slug on one date,
\* one of them on a date of another year, and two with a date that is none
ServerRecords ==
    { Merge(GoodJson, ("date" :> Str(August16)) @@ ("title" :> Str(<<"A", " ", "b", "!">>))),
      Merge(GoodJson, ("date" :> Str(August16)) @@ ("title" :> Str(<<"a", "-", "b">>))),
      Merge(GoodJson, ("date" :> Str(LeapDay)) @@ ("title" :> Str(<<"a", "-", "b">>))),
      Merge(GoodJson, ("date" :> Str(NoSuchDay)) @@ ("title" :> Str(<<"a", "-", "b">>))),
      Merge(GoodJson, ("date" :> Str(SlashDate)) @@ ("title" :> Str(<<"a", "-", "b">>))) }

\* the environment of one request: whether the push token is set, and which
\* step meets a failure of its own, if any
ServerEnvs ==
    { [token |-> TRUE, fault |-> "none"],
      [token |-> FALSE, fault |-> "none"],
      [token |-> TRUE, fault |-> "fsDenied"],
      [token |-> TRUE, fault |-> "commitFails"],
      [token |-> TRUE, fault |-> "pushRejected"] }

(***************************************************************************)
(* The ResumeLogger component                                              *)
(***************************************************************************)
Stages == {"reflection", "input", "processing", "review", "success"}

Fields == {"title", "date", "tags", "impact_level", "visibility",
           "description", "resume_bullet"}

\* editField === null
NoField == "null"

\* the fields whose controls the model's user opens: a text input, a
\* comma-separated input and the select
EditedFields == {"title", "tags", "impact_level"}

\* texts the user types into the textarea of line 208
UserInputs == {<<>>, <<" ">>, <<"A", ".", "b">>}

\* what the LLM call does for a request the component sent
UILLMOutcomes ==
    { [kind |-> "fetchThrows", json |-> JNull],
      [kind |-> "contentNotJson", json |-> JNull],
      [kind |-> "contentJson", json |-> Obj(GoodJson)],
      [kind |-> "contentJson", json |-> Obj(EmptyObject)] }

FailedToFetch ==
    <<"F", "a", "i", "l", "e", "d", " ", "t", "o", " ", "f", "e", "t", "c", "h">>
UnexpectedToken ==
    <<"U", "n", "e", "x", "p", "e", "c", "t", "e", "d", " ", "t", "o", "k", "e", "n">>
ReadOfNull ==
    <<"r", "e", "s", "u", "l", "t", " ", "o", "f", " ", "n", "u", "l", "l">>
EntryLogged ==
    <<"E", "n", "t", "r", "y", " ", "l", "o", "g", "g", "e", "d">>
PushFailed ==
    <<"g", "i", "t", " ", "p", "u", "s", "h", " ", "f", "a", "i", "l", "e", "d">>

\* what the POST to /log-entry does: fetch rejects with an error, or a
\* response arrives with a status and a body that response.json() parses,
\* or rejects with an error
PersistOutcomes ==
    { [kind |-> "fetchRejects", status |-> 0, body |-> JNull, message |-> FailedToFetch],
      [kind |-> "bodyNotJson", status |-> 502, body |-> JNull, message |-> UnexpectedToken],
      [kind |-> "json", status |-> 200, body |-> Obj("result" :> Str(EntryLogged)),
       message |-> <<>>],
      [kind |-> "json", status |-> 200, body |-> Obj("result" :> Str(<<>>)),
       message |-> <<>>],
      [kind |-> "json", status |-> 200, body |-> Obj(EmptyObject), message |-> <<>>],
      [kind |-> "json", status |-> 500, body |-> Obj("detail" :> Str(PushFailed)),
       message |-> <<>>] }

\* lastEvent after a handler that saw no outcome of a request
NoEvent == [op |-> "none", arg |-> [kind |-> "none"]]

Init ==
    /\ stage = "reflection"
    /\ userInput = <<>>
    /\ structuredData = EmptyObject
    /\ isSubmitting = FALSE
    /\ editField = NoField
    /\ apiResponse = <<>>
    /\ shouldProcess = FALSE
    /\ structReqs = <<>>
    /\ persistReqs = <<>>
    /\ clock = 1
    /\ lastEvent = NoEvent
    /\ edits = 0
    /\ probe = ProbeIdle
    /\ repo = RepoEmpty

\* lines 93-96: processInput calls inferStructureFromInput(userInput) when
\* shouldProcess && stage === 'processing'
processInput(sp, st, ui) ==
    IF sp /\ st = "processing" THEN <<[input |-> ui]>> ELSE <<>>

\* lines 92-109: the effect runs after a render in which one of
\* [shouldProcess, stage, userInput] differs from the render before
useEffect(sp, st, ui) ==
    IF <<sp, st, ui>> # <<shouldProcess, stage, userInput>>
    THEN processInput(sp, st, ui)
    ELSE <<>>

\* line 224: disabled={stage === 'processing' || !userInput.trim()}
AnalyzeDisabled == stage = "processing" \/ trim(userInput) = <<>>

ConfirmDisabled_never == FALSE

\* line 533: disabled={isSubmitting}
ConfirmDisabled == isSubmitting

\* line 211: onChange={(e) => setUserInput(e.target.value)}
setUserInput(s) ==
    /\ stage \in {"reflection", "input"}
    /\ s # userInput
    /\ userInput' = s
    /\ structReqs' = structReqs \o useEffect(shouldProcess, stage, s)
    /\ lastEvent' = NoEvent
    /\ UNCHANGED <<stage, structuredData, isSubmitting, editField, apiResponse,
                   shouldProcess, persistReqs, clock, edits, probe, repo>>

\* lines 85-90, behind the button of lines 222-230
handleInputSubmit ==
    /\ stage \in {"reflection", "input"}
    /\ ~AnalyzeDisabled
    /\ Len(structReqs) < MaxStructReqs
    /\ trim(userInput) # <<>>
    /\ stage' = "processing"
    /\ shouldProcess' = TRUE
    /\ structReqs' = structReqs \o useEffect(TRUE, "processing", userInput)
    /\ lastEvent' = NoEvent
    /\ UNCHANGED <<userInput, structuredData, isSubmitting, editField,
                   apiResponse, persistReqs, clock, edits, probe, repo>>

RemoveAt(q, i) == SubSeq(q, 1, i - 1) \o SubSeq(q, i + 1, Len(q))

processInputResume_merge(i, llm) ==
    /\ i \in 1..Len(structReqs)
    /\ LET r == inferStructureFromInput(structReqs[i].input, llm, clock)
           st == IF r.settled = "resolved" THEN "review" ELSE "input"
       IN  /\ structuredData' = IF r.settled = "resolved"
                                THEN Merge(structuredData, r.value)
                                ELSE structuredData
           /\ stage' = st
           /\ shouldProcess' = FALSE
           /\ structReqs' = RemoveAt(structReqs, i) \o useEffect(FALSE, st, userInput)
           /\ lastEvent' = [op |-> "processInputResume",
                            arg |-> [kind |-> llm.kind,
                                     input |-> structReqs[i].input]]
    /\ UNCHANGED <<userInput, isSubmitting, editField, apiResponse,
                   persistReqs, clock, edits, probe, repo>>

\* lines 96-104: the call of request i settles and processInput resumes.
\* The three state updates are applied in one render (React 18 batches the
\* updates of one continuation), after which the effect runs once.
processInputResume(i, llm) ==
    /\ i \in 1..Len(structReqs)
    /\ LET r == inferStructureFromInput(structReqs[i].input, llm, clock)
           st == IF r.settled = "resolved" THEN "review" ELSE "input"
       IN  /\ structuredData' = IF r.settled = "resolved" THEN r.value
                                ELSE structuredData
           /\ stage' = st
           /\ shouldProcess' = FALSE
           /\ structReqs' = RemoveAt(structReqs, i) \o useEffect(FALSE, st, userInput)
           /\ lastEvent' = [op |-> "processInputResume",
                            arg |-> [kind |-> llm.kind,
                                     input |-> structReqs[i].input]]
    /\ UNCHANGED <<userInput, isSubmitting, editField, apiResponse,
                   persistReqs, clock, edits, probe, repo>>

\* the comma-separated text of the spec's example, "a, b ,  , c"
CommaText == <<"a", ",", " ", "b", " ", ",", " ", " ", ",", " ", "c">>

\* what the user can enter in the control of a field
EditTexts(field) ==
    CASE field = "impact_level" ->        \* the options of lines 412-416
            { <<"E", "x", "p", "l", "o", "r", "a", "t", "o", "r", "y">>, InProgress }
      [] field \in {"tags", "visibility"} -> { CommaText, <<>>, <<" ", ",">> }
      [] field = "date" -> { OldDate, <<>> }
      [] OTHER -> { <<"b">>, <<>> }

arrayValue_noFilter(value) ==
    LET pieces == split(value, ",")
    IN  Arr([i \in 1..Len(pieces) |-> Str(trim(pieces[i]))])

\* lines 113-119: value.split(',').map((s) => s.trim()).filter((s) => s);
\* the controls of a field always pass a string
arrayValue(value) ==
    LET pieces == split(value, ",")
        trimmed == [i \in 1..Len(pieces) |-> trim(pieces[i])]
    IN  Arr([i \in 1..Len(SelectSeq(trimmed, LAMBDA x : x # <<>>)) |->
                Str(SelectSeq(trimmed, LAMBDA x : x # <<>>)[i])])

fieldEdit_replace(prev, field, value) ==
    IF field = "tags" \/ field = "visibility"
    THEN field :> arrayValue(value)
    ELSE field :> Str(value)

\* lines 112-123: the updater, prev => ({...prev, [field]: ...})
fieldEdit(prev, field, value) ==
    IF field = "tags" \/ field = "visibility"
    THEN Merge(prev, field :> arrayValue(value))
    ELSE Merge(prev, field :> Str(value))

\* lines 111-124, behind the onChange of the control of the field in edit
handleFieldEdit(field, value) ==
    /\ stage = "review"
    /\ editField = field
    /\ edits < MaxEdits
    /\ edits' = edits + 1
    /\ structuredData' = fieldEdit(structuredData, field, value)
    /\ structuredData' # structuredData
    /\ lastEvent' = NoEvent
    /\ UNCHANGED <<stage, userInput, isSubmitting, editField, apiResponse,
                   shouldProcess, structReqs, persistReqs, clock, probe, repo>>

\* texts for a direct call of the updater: every string of commas, blanks
\* and a letter up to MaxLen, the example, and a list with a duplicate
EditStrings ==
    UNION {[1..k -> {"a", ",", " "}] : k \in 0..MaxLen}
        \cup {CommaText, <<"b", ",", "a", ",", "b">>}

EditRecords == {GoodJson, EmptyObject}

\* one direct call of the updater of handleFieldEdit on a record
EditCall(prev, field, value) ==
    /\ probe.pc = "idle"
    /\ probe' = [ pc |-> "edited", field |-> field, value |-> value,
                  prev |-> prev, next |-> fieldEdit(prev, field, value) ]
    /\ UNCHANGED <<uiVars, clock, repo>>

\* lines 304, 332, 360, 398, 433, 472, 499: the pencil button of a field
toggleEdit(field) ==
    /\ stage = "review"
    /\ editField' = IF editField = field THEN NoField ELSE field
    /\ lastEvent' = NoEvent
    /\ UNCHANGED <<stage, userInput, structuredData, isSubmitting, apiResponse,
                   shouldProcess, structReqs, persistReqs, clock, edits, probe, repo>>

onBlur_discard ==
    /\ stage = "review"
    /\ editField # NoField
    /\ editField' = NoField
    /\ structuredData' = Merge(structuredData, editField :> Str(<<>>))
    /\ lastEvent' = NoEvent
    /\ UNCHANGED <<stage, userInput, isSubmitting, apiResponse,
                   shouldProcess, structReqs, persistReqs, clock, edits, probe, repo>>

\* lines 316, 344, 373, 409, 446, 483, 510: onBlur={() => setEditField(null)}
onBlur ==
    /\ stage = "review"
    /\ editField # NoField
    /\ editField' = NoField
    /\ lastEvent' = NoEvent
    /\ UNCHANGED <<stage, userInput, structuredData, isSubmitting, apiResponse,
                   shouldProcess, structReqs, persistReqs, clock, edits, probe, repo>>

\* lines 524-530: Back to Edit, onClick={() => setStage('input')}
backToEdit ==
    /\ stage = "review"
    /\ stage' = "input"
    /\ structReqs' = structReqs \o useEffect(shouldProcess, "input", userInput)
    /\ lastEvent' = NoEvent
    /\ UNCHANGED <<userInput, structuredData, isSubmitting, editField, apiResponse,
                   shouldProcess, persistReqs, clock, edits, probe, repo>>

submitToAPI_noPayload ==
    /\ stage = "review"
    /\ ~ConfirmDisabled
    /\ isSubmitting' = TRUE
    /\ persistReqs' = Append(persistReqs, [payload |-> EmptyObject])
    /\ lastEvent' = NoEvent
    /\ UNCHANGED <<stage, userInput, structuredData, editField, apiResponse,
                   shouldProcess, structReqs, clock, edits, probe, repo>>

\* lines 126-135, behind the button of lines 531-539: the flag is set and
\* the request is sent with the record of this render
submitToAPI ==
    /\ stage = "review"
    /\ ~ConfirmDisabled
    /\ isSubmitting' = TRUE
    /\ persistReqs' = Append(persistReqs, [payload |-> structuredData])
    /\ lastEvent' = NoEvent
    /\ UNCHANGED <<stage, userInput, structuredData, editField, apiResponse,
                   shouldProcess, structReqs, clock, edits, probe, repo>>

Undefined == [t |-> "undefined", v |-> <<>>]

\* x[k] for a value that is not null or undefined
Get(x, k) == IF x.t = "obj" /\ k \in DOMAIN x.v THEN x.v[k] ELSE Undefined

Truthy(x) ==
    CASE x.t = "str" -> x.v # <<>>
      [] x.t = "num" -> x.v # <<0>>
      [] x.t \in {"null", "undefined"} -> FALSE
      [] OTHER -> TRUE

\* lines 141-142, the catch block
submitToAPICatch_noPrefix(message) ==
    [apiResponse |-> message, stage |-> "success"]

submitToAPICatch(message) ==
    [apiResponse |-> ErrorPrefix \o message, stage |-> "success"]

submitToAPISettle_noResult(outcome) ==
    CASE outcome.kind \in {"fetchRejects", "bodyNotJson"} ->
            submitToAPICatch(outcome.message)
      [] outcome.body.t \in {"null", "undefined"} ->
            submitToAPICatch(ReadOfNull)
      [] OTHER -> [apiResponse |-> EntrySubmitted, stage |-> "success"]

submitToAPISettle_noDefault(outcome) ==
    CASE outcome.kind \in {"fetchRejects", "bodyNotJson"} ->
            submitToAPICatch(outcome.message)
      [] outcome.body.t \in {"null", "undefined"} ->
            submitToAPICatch(ReadOfNull)
      [] OTHER -> [apiResponse |-> Get(outcome.body, "result").v, stage |-> "success"]

\* lines 129-143: what submitToAPI sets once the request has settled; the
\* status of the response is not read
submitToAPISettle(outcome) ==
    CASE outcome.kind \in {"fetchRejects", "bodyNotJson"} ->
            submitToAPICatch(outcome.message)
      [] outcome.body.t \in {"null", "undefined"} ->      \* result.result throws
            submitToAPICatch(ReadOfNull)
      [] OTHER ->
            [ apiResponse |-> IF Truthy(Get(outcome.body, "result"))
                              THEN Get(outcome.body, "result").v
                              ELSE EntrySubmitted,
              stage |-> "success" ]

submitToAPIResume_noClearOnError(i, outcome) ==
    /\ i \in 1..Len(persistReqs)
    /\ LET r == submitToAPISettle(outcome)
       IN  /\ apiResponse' = r.apiResponse
           /\ stage' = r.stage
           /\ structReqs' = structReqs \o useEffect(shouldProcess, r.stage, userInput)
    /\ isSubmitting' = (isSubmitting /\ outcome.kind \in {"fetchRejects", "bodyNotJson"})
    /\ persistReqs' = RemoveAt(persistReqs, i)
    /\ lastEvent' = [op |-> "submitToAPIResume",
                     arg |-> [kind |-> outcome.kind, status |-> outcome.status,
                              body |-> outcome.body, message |-> outcome.message]]
    /\ UNCHANGED <<userInput, structuredData, editField, shouldProcess, clock,
                   edits, probe, repo>>

\* lines 137-144: request i settles and submitToAPI resumes
submitToAPIResume(i, outcome) ==
    /\ i \in 1..Len(persistReqs)
    /\ LET r == submitToAPISettle(outcome)
       IN  /\ apiResponse' = r.apiResponse
           /\ stage' = r.stage
           /\ structReqs' = structReqs \o useEffect(shouldProcess, r.stage, userInput)
    /\ isSubmitting' = FALSE
    /\ persistReqs' = RemoveAt(persistReqs, i)
    /\ lastEvent' = [op |-> "submitToAPIResume",
                     arg |-> [kind |-> outcome.kind, status |-> outcome.status,
                              body |-> outcome.body, message |-> outcome.message]]
    /\ UNCHANGED <<userInput, structuredData, editField, shouldProcess, clock,
                   edits, probe, repo>>

\* lines 147-153, behind Log Another Achievement (line 579)
resetForm ==
    /\ stage = "success"
    /\ stage' = "reflection"
    /\ userInput' = <<>>
    /\ structuredData' = EmptyObject
    /\ editField' = NoField
    /\ apiResponse' = <<>>
    /\ structReqs' = structReqs \o useEffect(shouldProcess, "reflection", <<>>)
    /\ lastEvent' = NoEvent
    /\ UNCHANGED <<isSubmitting, shouldProcess, persistReqs, clock, edits, probe, repo>>

Next ==
    \/ \E s \in UserInputs : setUserInput(s)
    \/ handleInputSubmit
    \/ \E i \in 1..Len(structReqs), llm \in UILLMOutcomes : processInputResume(i, llm)
    \/ \E field \in EditedFields : \E value \in EditTexts(field) :
            handleFieldEdit(field, value)
    \/ \E field \in EditedFields : toggleEdit(field)
    \/ onBlur
    \/ backToEdit
    \/ submitToAPI
    \/ \E i \in 1..Len(persistReqs), outcome \in PersistOutcomes : submitToAPIResume(i, outcome)
    \/ resetForm

Spec == Init /\ [][Next]_vars

InferNext ==
    \/ \E input \in InferInputs, llm \in LLMOutcomes : InferCall(input, llm)
    \/ Tick

InferSpec == Init /\ [][InferNext]_vars

EditNext ==
    \E prev \in EditRecords, field \in Fields, value \in EditStrings :
        EditCall(prev, field, value)

EditSpec == Init /\ [][EditNext]_vars

ServerNext ==
    \E record \in ServerRecords, env \in ServerEnvs : addLogEntry(record, env)

ServerSpec == Init /\ [][ServerNext]_vars

(***************************************************************************)
(* Properties                                                              *)
(***************************************************************************)
HasPrefix(s, p) == Len(s) >= Len(p) /\ SubSeq(s, 1, Len(p)) = p

StageEdges ==
    { <<"reflection", "processing">>, <<"input", "processing">>,
      <<"processing", "review">>, <<"processing", "input">>,
      <<"review", "success">>, <<"review", "input">>,
      <<"success", "reflection">> }

\* C1: the stage changes only along the edges reflection/input ->
\* processing, processing -> review, processing -> input, review -> success,
\* review -> input and success -> reflection.
C1_StageEdgesOnly ==
    [][stage' # stage => <<stage, stage'>> \in StageEdges]_vars

\* C2: at most one structuring request is outstanding at any moment, and
\* each transition into processing starts exactly one.
C2_OneStructuringRequest ==
    [][ /\ Len(structReqs') <= 1
        /\ (stage # "processing" /\ stage' = "processing"
              => Len(structReqs') = Len(structReqs) + 1) ]_vars

\* C3: at most one persistence request is outstanding at any moment,
\* whatever the user does between its sending and its settling.
C3_OnePersistenceRequest == Len(persistReqs) <= 1

\* a persistence request is outstanding and the user has meanwhile come
\* back to review with another record than the one that was sent
C3_Witness ==
    /\ Len(persistReqs) = 1
    /\ stage = "review"
    /\ persistReqs[1].payload # structuredData

\* C4: when a structuring call settles, whatever the LLM call did, the stage
\* becomes review with a structured record set and no message is shown; and
\* the stage is never processing without a call that is still to settle.
C4_StructuringReachesReview ==
    [][ /\ (Len(structReqs') < Len(structReqs)
              => /\ stage' = "review"
                 /\ structuredData' # EmptyObject
                 /\ apiResponse' = apiResponse)
        /\ (stage' = "processing" => structReqs' # <<>>) ]_vars

\* a structuring call whose LLM call failed has just settled
C4_Witness ==
    /\ lastEvent.op = "processInputResume"
    /\ lastEvent.arg.kind \in LLMFailureKinds
    /\ stage = "review"

\* a persistence call failed: fetch rejected, the body did not parse, or the
\* status is not 2xx
PersistFailed(a) ==
    \/ a.kind \in {"fetchRejects", "bodyNotJson"}
    \/ a.status \notin 200..299

\* C5: every failed persistence call ends in stage success with a message
\* that begins with "Error: ".
C5_FailureShowsError ==
    (lastEvent.op = "submitToAPIResume" /\ PersistFailed(lastEvent.arg))
        => (stage = "success" /\ HasPrefix(apiResponse, ErrorPrefix))

\* C6: after a persistence request whose fetch rejected, the message is
\* "Error: " followed by the error's message, the stage is success, the
\* submitting flag is clear and no request is outstanding.
C6_NetworkFailureIsTerminal ==
    (lastEvent.op = "submitToAPIResume" /\ lastEvent.arg.kind = "fetchRejects")
        => /\ apiResponse = ErrorPrefix \o lastEvent.arg.message
           /\ stage = "success"
           /\ ~isSubmitting
           /\ persistReqs = <<>>

\* the fetch of a persistence request has just rejected
C6_Witness ==
    /\ lastEvent.op = "submitToAPIResume"
    /\ lastEvent.arg.kind = "fetchRejects"
    /\ lastEvent.arg.message # <<>>
    /\ stage = "success"

Digits == {"0", "1", "2", "3", "4", "5", "6", "7", "8", "9"}

\* a string of the form YYYY-MM-DD
IsIsoDate(d) ==
    /\ Len(d) = 10
    /\ \A i \in {1, 2, 3, 4, 6, 7, 9, 10} : d[i] \in Digits
    /\ d[5] = "-" /\ d[8] = "-"

\* C7: the record the structuring operation returns has date equal to the
\* current date in YYYY-MM-DD form, whatever the LLM returned.
C7_DateIsToday ==
    probe.pc = "done"
        => /\ probe.result.settled = "resolved"
           /\ "date" \in DOMAIN probe.result.value
           /\ probe.result.value["date"] = Str(SubSeq(toISOString(probe.clock), 1, 10))
           /\ IsIsoDate(probe.result.value["date"].v)

SixFields == {"title", "description", "tags", "impact_level", "visibility",
              "resume_bullet"}

\* a field that is present and a non-empty string or a non-empty list
Populated(rec, f) ==
    /\ f \in DOMAIN rec
    /\ rec[f].t \in {"str", "arr"}
    /\ rec[f].v # <<>>

\* C8: for a non-empty raw input and any outcome of the LLM call, the record
\* returned has all six fields populated. Non-empty is read as the component
\* reads it before it calls (line 86, userInput.trim()): the input has a
\* character that is not white space.
C8_AllSixPopulated ==
    (probe.pc = "done" /\ trim(probe.input) # <<>>)
        => /\ probe.result.settled = "resolved"
           /\ \A f \in SixFields : Populated(probe.result.value, f)

\* C9: inferStructureFromInput never rejects, and when the LLM call fails
\* it resolves to a record of the fallback: the seven fields, with the
\* fallback's tag, impact level and visibility.
C9_NeverRejects ==
    probe.pc = "done"
        => /\ probe.result.settled = "resolved"
           /\ probe.llm.kind \in LLMFailureKinds
                => /\ DOMAIN probe.result.value = SixFields \cup {"date"}
                   /\ probe.result.value["tags"] = Arr(<<Str(AchievementTag)>>)
                   /\ probe.result.value["impact_level"] = Str(InProgress)
                   /\ probe.result.value["visibility"] = Arr(<<Str(Internal)>>)

\* the call was made with the empty string and the response had no choices
C9_Witness ==
    /\ probe.pc = "done"
    /\ probe.input = <<>>
    /\ probe.llm.kind = "choicesMissing"
    /\ probe.result.settled = "resolved"

\* the text before the first period, the whole text when there is none
BeforeFirstPeriod(s) ==
    IF \E i \in 1..Len(s) : s[i] = "."
    THEN SubSeq(s, 1, (CHOOSE i \in 1..Len(s) :
                          s[i] = "." /\ \A j \in 1..(i - 1) : s[j] # ".") - 1)
    ELSE s

\* t is s without the white space at its two ends
IsTrimOf(t, s) ==
    /\ t # <<>> => ~IsSpace(t[1]) /\ ~IsSpace(t[Len(t)])
    /\ \E a \in 0..Len(s) :
          /\ a + Len(t) <= Len(s)
          /\ SubSeq(s, a + 1, a + Len(t)) = t
          /\ \A i \in (1..a) \cup ((a + Len(t) + 1)..Len(s)) : IsSpace(s[i])

\* C10: when the LLM call fails the result is the fallback record: title the
\* trimmed text before the first period cut to 80 characters, or "Recent
\* Achievement" when that is empty; description the trimmed input; tags
\* ["Achievement"]; impact_level "In Progress"; visibility ["Internal"];
\* resume_bullet "Accomplished <lower-cased text before the first period>.",
\* or "Accomplished recent work." when that text is empty; date today.
C10_FallbackRecord ==
    (probe.pc = "done" /\ probe.llm.kind \in LLMFailureKinds)
        => LET rec == probe.result.value
               first == BeforeFirstPeriod(probe.input)
           IN  /\ DOMAIN rec = SixFields \cup {"date"}
               /\ rec["title"].t = "str"
               /\ Len(rec["title"].v) <= TitleMax
               /\ IsTrimOf(trim(first), first)
               /\ rec["title"].v =
                     IF trim(first) = <<>> THEN RecentAchievement
                     ELSE SubSeq(trim(first), 1, Min(TitleMax, Len(trim(first))))
               /\ rec["description"].t = "str"
               /\ IsTrimOf(rec["description"].v, probe.input)
               /\ rec["tags"] = Arr(<<Str(AchievementTag)>>)
               /\ rec["impact_level"] = Str(InProgress)
               /\ rec["visibility"] = Arr(<<Str(Internal)>>)
               /\ rec["resume_bullet"] =
                     Str(AccomplishedPrefix
                         \o (IF first = <<>> THEN RecentWork ELSE toLowerCase(first))
                         \o <<".">>)
               /\ rec["date"] = Str(SubSeq(toISOString(probe.clock), 1, 10))

\* the LLM call failed on an input whose first clause is longer than the
\* title limit, so that the title was cut
C10_Witness ==
    /\ probe.pc = "done"
    /\ probe.llm.kind = "contentNotJson"
    /\ Len(BeforeFirstPeriod(probe.input)) > TitleMax
    /\ Len(probe.result.value["title"].v) = TitleMax

\* C11: a persistence request is sent only when the record under review has
\* all six structured fields populated.
C11_SubmitOnlyWhenPopulated ==
    [][Len(persistReqs') > Len(persistReqs)
         => \A f \in SixFields : Populated(structuredData, f)]_vars

Exploratory == <<"E", "x", "p", "l", "o", "r", "a", "t", "o", "r", "y">>
Strategic == <<"S", "t", "r", "a", "t", "e", "g", "i", "c">>
EnterpriseScale ==
    <<"E", "n", "t", "e", "r", "p", "r", "i", "s", "e", " ", "S", "c", "a", "l", "e">>

\* the closed enumeration of the data model
ImpactLevels == {Exploratory, InProgress, Confirmed, Strategic, EnterpriseScale}

HasImpactLevel(rec) ==
    /\ "impact_level" \in DOMAIN rec
    /\ rec["impact_level"].t = "str"
    /\ rec["impact_level"].v \in ImpactLevels

\* C12: in every review-stage state and in every record sent to the
\* persistence endpoint, impact_level is one of the five levels.
C12_ImpactLevelInEnum ==
    /\ stage = "review" => HasImpactLevel(structuredData)
    /\ \A i \in 1..Len(persistReqs) : HasImpactLevel(persistReqs[i].payload)

HasText(s) == \E i \in 1..Len(s) : ~IsSpace(s[i])

EntryStages == {"reflection", "input"}

\* C13: from reflection or input, submitting is possible and leads to
\* processing exactly when the text has a character that is not white space;
\* with empty or white-space-only text no step enters processing or starts a
\* structuring request, and processing is entered only with the text kept.
C13_SubmitIffNonBlank ==
    /\ [](stage \in EntryStages /\ Len(structReqs) < MaxStructReqs
            => (HasText(userInput) <=> ENABLED handleInputSubmit))
    /\ [][/\ stage \in EntryStages /\ ~HasText(userInput)
               => /\ stage' # "processing"
                  /\ Len(structReqs') <= Len(structReqs)
                  /\ shouldProcess' => shouldProcess
          /\ stage # "processing" /\ stage' = "processing"
               => /\ stage \in EntryStages
                  /\ HasText(userInput)
                  /\ userInput' = userInput
                  /\ shouldProcess']_vars

C13_Witness ==
    /\ stage \in EntryStages
    /\ userInput = <<" ">>
    /\ ~shouldProcess
    /\ structReqs = <<>>

\* the pieces of s between its commas, from left to right
RECURSIVE CommaPieces(_)
CommaPieces(s) ==
    IF \A i \in 1..Len(s) : s[i] # ","
    THEN <<s>>
    ELSE LET k == CHOOSE i \in 1..Len(s) :
                      s[i] = "," /\ \A j \in 1..(i - 1) : s[j] # ","
         IN  <<SubSeq(s, 1, k - 1)>> \o CommaPieces(SubSeq(s, k + 1, Len(s)))

\* list holds, in order, the trimmed form of every piece of value that is
\* not blank, and nothing else
IsListOf(list, value) ==
    LET P == CommaPieces(value)
        K == {i \in 1..Len(P) : HasText(P[i])}
    IN  /\ Len(list) = Cardinality(K)
        /\ \A i \in K :
              LET n == Cardinality({j \in K : j <= i})
              IN  list[n].t = "str" /\ IsTrimOf(list[n].v, P[i])

ListFields == {"tags", "visibility"}

\* C14: an edit of tags or visibility stores the trimmed comma-separated
\* pieces without the blank ones, order and duplicates kept ("a, b ,  , c"
\* gives ["a", "b", "c"]); an edit of any other field stores the value as given.
C14_EditStoresValue ==
    probe.pc = "edited"
        => /\ probe.field \in DOMAIN probe.next
           /\ probe.field \in ListFields
                => /\ probe.next[probe.field].t = "arr"
                   /\ IsListOf(probe.next[probe.field].v, probe.value)
           /\ (probe.field \in ListFields /\ probe.value = CommaText)
                => probe.next[probe.field]
                     = Arr(<<Str(<<"a">>), Str(<<"b">>), Str(<<"c">>)>>)
           /\ probe.field \notin ListFields
                => probe.next[probe.field] = Str(probe.value)

C14_Witness ==
    /\ probe.pc = "edited"
    /\ probe.field = "tags"
    /\ probe.value = CommaText
    /\ Len(probe.next["tags"].v) = 3

\* the persistence request that settled last answered with an HTTP success
\* status and a JSON object
PersistSucceeded ==
    /\ lastEvent.op = "submitToAPIResume"
    /\ lastEvent.arg.kind = "json"
    /\ lastEvent.arg.status \in 200..299
    /\ lastEvent.arg.body.t = "obj"

\* C15 as stated: after an HTTP success the message is exactly the result
\* field of the body whenever the body has one, and "Entry submitted
\* successfully!" when it has none.
C15_ResultShownExactly ==
    PersistSucceeded
        => apiResponse = IF "result" \in DOMAIN lastEvent.arg.body.v
                         THEN lastEvent.arg.body.v["result"].v
                         ELSE EntrySubmitted

\* C15, amended: after an HTTP success the message is exactly the result
\* field of the body when the body has one that is not empty, and "Entry
\* submitted successfully!" when the field is missing or empty.
C15_NonEmptyResultShown ==
    PersistSucceeded
        => apiResponse = IF /\ "result" \in DOMAIN lastEvent.arg.body.v
                            /\ lastEvent.arg.body.v["result"].v # <<>>
                         THEN lastEvent.arg.body.v["result"].v
                         ELSE EntrySubmitted

C15_Witness ==
    /\ PersistSucceeded
    /\ stage = "success"
    /\ "result" \in DOMAIN lastEvent.arg.body.v
    /\ apiResponse = EntryLogged

\* C16: Log Another Achievement (the step from success to reflection) leaves
\* the initial values in all transient state: the text and the record empty,
\* no field in edit mode, no message, and isSubmitting and shouldProcess
\* both false.
C16_ResetClearsAll ==
    [][(stage = "success" /\ stage' = "reflection")
         => /\ userInput' = <<>>
            /\ structuredData' = EmptyObject
            /\ editField' = NoField
            /\ apiResponse' = <<>>
            /\ ~isSubmitting'
            /\ ~shouldProcess']_vars

\* C17: Back to Edit (the step from review to input) changes nothing but the
\* stage and sends no request; pressed on a record that has just arrived,
\* the text it leaves in the input is the text that was submitted for it.
C17_BackToEditKeepsInput ==
    [][(stage = "review" /\ stage' = "input")
         => /\ UNCHANGED <<userInput, structuredData, isSubmitting, editField,
                           apiResponse, shouldProcess, structReqs, persistReqs>>
            /\ lastEvent.op = "processInputResume"
                 => userInput' = lastEvent.arg.input]_vars

\* C18: in stage success the message is never empty.
C18_SuccessHasMessage == stage = "success" => apiResponse # <<>>

C18_Witness ==
    /\ stage = "success"
    /\ lastEvent.op = "submitToAPIResume"
    /\ lastEvent.arg.kind = "json"
    /\ lastEvent.arg.body = Obj("result" :> Str(<<>>))
    /\ apiResponse = EntrySubmitted

\* C19: over any sequence of addLogEntry operations, a file once written
\* under logs/ keeps its content: every [path, content] of the working copy
\* is still there after every step.
C19_FilesNeverChanged ==
    [][\A f \in repo.files : f \in repo'.files]_vars

FileOf(record) == [path |-> recordPath(record), content |-> record]

\* C20: a call without the push token, for a record with a valid date whose
\* content is not yet in the history, writes the file, appends the local
\* commit, leaves the remote as it was and returns a failure of the push
\* step; and no call ever removes a file or a commit that is there.
C20_MissingTokenKeepsLocal ==
    [][/\ ( /\ repo' # repo
            /\ ~repo'.out.env.token
            /\ isoDateParses(repo'.out.record["date"].v)
            /\ ~HeadHas(repo.commits, recordPath(repo'.out.record), repo'.out.record) )
         => /\ FileOf(repo'.out.record) \in repo'.files
            /\ repo'.commits = Append(repo.commits, FileOf(repo'.out.record))
            /\ repo'.remote = repo.remote
            /\ ~repo'.out.success
            /\ repo'.out.category = "auth"
       /\ Len(repo'.commits) >= Len(repo.commits)
       /\ SubSeq(repo'.commits, 1, Len(repo.commits)) = repo.commits
       /\ {f.path : f \in repo.files} \subseteq {f.path : f \in repo'.files}]_vars

C20_Witness ==
    /\ repo.out.op = "addLogEntry"
    /\ ~repo.out.env.token
    /\ ~repo.out.success
    /\ repo.out.category = "auth"
    /\ FileOf(repo.out.record) \in repo.files
    /\ repo.commits # <<>>
    /\ repo.commits[Len(repo.commits)] = FileOf(repo.out.record)
    /\ repo.remote < Len(repo.commits)

\* the call that made this step was for a record whose content its path
\* already has in the history, and met no failure of the file system or of
\* git commit itself
ResubmittedIdentical ==
    /\ repo' # repo
    /\ isoDateParses(repo'.out.record["date"].v)
    /\ repo'.out.env.fault \notin {"fsDenied", "commitFails"}
    /\ HeadHas(repo.commits, recordPath(repo'.out.record), repo'.out.record)

\* C21: submitting a record whose content is already committed leaves
\* exactly one file at its path, with that content, adds no commit, and
\* returns the informational "nothing to commit" result, not a failure.
C21_IdenticalTwice ==
    [][ResubmittedIdentical
         => /\ {f \in repo'.files : f.path = recordPath(repo'.out.record)}
                  = {FileOf(repo'.out.record)}
            /\ repo'.commits = repo.commits
            /\ repo'.out.success
            /\ repo'.out.message = "No changes to commit"
            /\ repo'.out.category = "none"]_vars

C21_Witness ==
    /\ repo.out.op = "addLogEntry"
    /\ repo.out.message = "No changes to commit"
    /\ repo.out.success
    /\ FileOf(repo.out.record) \in repo.files
    /\ Cardinality({i \in 1..Len(repo.commits) :
                       repo.commits[i] = FileOf(repo.out.record)}) = 1

\* C22: a call for a record whose date does not parse returns a failure and
\* leaves the working copy, the history and the remote as they were.
C22_InvalidDateNoEffect ==
    [][(repo' # repo /\ ~isoDateParses(repo'.out.record["date"].v))
         => /\ repo'.files = repo.files
            /\ repo'.commits = repo.commits
            /\ repo'.remote = repo.remote
            /\ ~repo'.out.success
            /\ repo'.out.category = "validation"]_vars

C22_Witness ==
    /\ repo.out.op = "addLogEntry"
    /\ repo.out.record["date"].v \in {NoSuchDay, SlashDate}
    /\ ~repo.out.success
    /\ repo.commits # <<>>

\* a structuring call settles in this step
StructuringSettles == Len(structReqs') < Len(structReqs)

\* C23: a structuring call that settles when the stage is no longer
\* processing changes neither the stage nor the structured record.
C23_LateResultIgnored ==
    [][(StructuringSettles /\ stage # "processing")
         => stage' = stage /\ structuredData' = structuredData]_vars

\* C24: shouldProcess is true only while the stage is processing.
C24_ShouldProcessOnlyProcessing == shouldProcess => stage = "processing"

\* C25: isSubmitting is true exactly when a persistence request is
\* outstanding.
C25_SubmittingIffOutstanding == isSubmitting <=> persistReqs # <<>>

C25_Witness ==
    /\ lastEvent.op = "submitToAPIResume"
    /\ lastEvent.arg.kind = "fetchRejects"
    /\ ~isSubmitting
    /\ persistReqs = <<>>

\* C26: a persistence request is sent with the record of the moment of the
\* click, and only by Confirm & Submit; no step changes the payload of a
\* request that is outstanding, and a field edit leaves the requests alone.
C26_PayloadIsRecordAtClick ==
    [][/\ Len(persistReqs') > Len(persistReqs)
            => /\ persistReqs' = Append(persistReqs, [payload |-> structuredData])
               /\ structuredData' = structuredData
       /\ Len(persistReqs') <= Len(persistReqs)
            => \A i \in 1..Len(persistReqs') :
                  \E j \in 1..Len(persistReqs) : persistReqs'[i] = persistReqs[j]
       /\ edits' # edits => persistReqs' = persistReqs]_vars

\* an edit made while the request is outstanding: the record differs from
\* the payload in one field
C26_Witness ==
    /\ stage = "review"
    /\ isSubmitting
    /\ edits = 1
    /\ Len(persistReqs) = 1
    /\ DOMAIN persistReqs[1].payload = DOMAIN structuredData
    /\ persistReqs[1].payload["description"] = structuredData["description"]
    /\ persistReqs[1].payload["title"] = Str(<<"A">>)
    /\ structuredData["title"] = Str(<<"b">>)

\* C27: the record after a structuring call has settled is the value that
\* call returned for its input, whole: nothing of the record before it, edited
\* or not, is kept.
C27_NewRecordReplacesOld ==
    [][StructuringSettles
         => \E llm \in UILLMOutcomes :
               /\ llm.kind = lastEvent'.arg.kind
               /\ structuredData'
                    = inferStructureFromInput(lastEvent'.arg.input, llm, clock).value]_vars

\* a record that arrives after a review in which a field was edited
C27_Witness ==
    /\ stage = "review"
    /\ lastEvent.op = "processInputResume"
    /\ edits = 1

\* C28: a step that ends edit mode within review (loss of focus, or the
\* pencil button) leaves the structured record, and everything but the edit
\* mode, as it was.
C28_BlurKeepsRecord ==
    [][(stage = "review" /\ stage' = "review"
          /\ editField # NoField /\ editField' = NoField)
         => UNCHANGED <<structuredData, userInput, isSubmitting, apiResponse,
                        shouldProcess, structReqs, persistReqs>>]_vars

\* the edited title is in the record after edit mode has ended
C28_Witness ==
    /\ stage = "review"
    /\ editField = NoField
    /\ edits = 1
    /\ "title" \in DOMAIN structuredData
    /\ structuredData["title"] = Str(<<"b">>)

\* C29: an edit of a field changes that field of the record only: the other
\* fields, the stage, the text, the edit mode, the message, the two flags
\* and the requests are as before.
C29_EditChangesOneField ==
    [][edits' # edits
         => /\ editField \in Fields
            /\ DOMAIN structuredData' = DOMAIN structuredData \cup {editField}
            /\ \A g \in DOMAIN structuredData \ {editField} :
                  structuredData'[g] = structuredData[g]
            /\ UNCHANGED <<stage, userInput, editField, apiResponse, isSubmitting,
                           shouldProcess, structReqs, persistReqs>>]_vars

C29_Witness ==
    /\ stage = "review"
    /\ editField = "tags"
    /\ edits = 1
    /\ DOMAIN structuredData = SixFields \cup {"date"}
    /\ structuredData["tags"] = Arr(<<Str(<<"a">>), Str(<<"b">>), Str(<<"c">>)>>)

====
